---- MODULE Spec2Model ----
(***************************************************************************)
(* ShibbolethRemoteUserBackend.authenticate (shibboleth/backends.py)       *)
(* modelled over an abstract Django store: the auth_user table (username   *)
(* unique), the auth_group table (name unique) and the user<->group        *)
(* many-to-many relation.                                                  *)
(*                                                                         *)
(* Spec     : calls run one after the other, each call one atomic action.  *)
(* ConcSpec : two calls for the same remote user run concurrently, one     *)
(*            store operation per step.                                    *)
(***************************************************************************)
EXTENDS Integers, Sequences, FiniteSets, TLC

\* ------------------------------------------------------------- bounds --
\* longest asserted groups list that is enumerated
MaxGroups == 2

\* ------------------------------------------------------------- values --
Usernames == {"u1", "u2"}
\* remote_user values handed to authenticate; "" is the falsy one
RemoteUsers == Usernames \cup {""}
Emails == {"e1", "e2"}
GroupNames == {"A", "B"}

\* keys a shib_meta mapping may carry besides "groups"; "affiliation" is
\* not a field of User
AttrKeys == {"username", "email", "affiliation"}

ValuesOf(k) ==
    CASE k = "username" -> Usernames
      [] k = "email" -> Emails
      [] OTHER -> {"staff"}

AttrMetas ==
    UNION {{m \in [D -> Usernames \cup Emails \cup {"staff"}] :
               \A k \in D : m[k] \in ValuesOf(k)} : D \in SUBSET AttrKeys}

GroupLists == UNION {[1..n -> GroupNames] : n \in 0..MaxGroups}

\* every shib_meta mapping: with or without the "groups" key
ShibMetas == AttrMetas \cup {m @@ ("groups" :> gl) : m \in AttrMetas, gl \in GroupLists}

\* Python's None for a user
NoUser == [id |-> 0, username |-> "", email |-> ""]

\* ------------------------------------------------------------ helpers --
Range(s) == {s[i] : i \in DOMAIN s}

\* User._meta.get_all_field_names(): the columns of auth_user the model
\* carries, and the many-to-many "groups"
FieldNames == {"username", "email", "groups"}

\* RemoteUserBackend.clean_username: the default returns its argument
clean_username(remote_user) == remote_user

\* lines 37-41: groups = shib_meta['groups'] or None
GroupsOf(shib_meta) ==
    IF "groups" \in DOMAIN shib_meta
    THEN [present |-> TRUE, list |-> shib_meta["groups"]]
    ELSE [present |-> FALSE, list |-> <<>>]

\* line 39: del shib_meta['groups']
DelGroups(shib_meta) == [k \in (DOMAIN shib_meta) \ {"groups"} |-> shib_meta[k]]

\* line 43, evaluated on shib_meta after line 39
shib_user_params(shib_meta) ==
    [k \in FieldNames \cap DOMAIN shib_meta |-> shib_meta[k]]

\* -------------------------------------------------------------- store --
\* a store value: [users, groups, memberships]
\*   users        rows of auth_user: [id, username, email], username unique
\*   groups       names of the rows of auth_group
\*   memberships  pairs <<user id, group name>>
Db(u, g, m) == [users |-> u, groups |-> g, memberships |-> m]

\* line 49 with the defaults left out of the call: a variant of
\* GetOrCreateUser that inserts the bare lookup
GetOrCreateUser_NoDefaults(db, username, defaults) ==
    LET found == {u \in db.users : u.username = username}
        obj == [id |-> Cardinality(db.users) + 1, username |-> username, email |-> ""]
    IN  IF found # {}
        THEN [db |-> db, user |-> CHOOSE u \in found : TRUE,
              created |-> FALSE, fault |-> FALSE]
        ELSE [db |-> [db EXCEPT !.users = @ \cup {obj}], user |-> obj,
              created |-> TRUE, fault |-> FALSE]

\* line 49: User.objects.get_or_create(username=username, defaults=...).
\* A row with the username is returned as it is.  Otherwise a row is built
\* from the lookup overridden by the defaults and inserted; the insert
\* fails on the unique username, and the second lookup then finds nothing.
GetOrCreateUser(db, username, defaults) ==
    LET found == {u \in db.users : u.username = username}
        obj == [id |-> Cardinality(db.users) + 1,
                username |-> IF "username" \in DOMAIN defaults
                             THEN defaults["username"] ELSE username,
                email |-> IF "email" \in DOMAIN defaults
                          THEN defaults["email"] ELSE ""]
    IN  IF found # {}
        THEN [db |-> db, user |-> CHOOSE u \in found : TRUE,
              created |-> FALSE, fault |-> FALSE]
        ELSE IF \E u \in db.users : u.username = obj.username
        THEN [db |-> db, user |-> NoUser, created |-> FALSE, fault |-> TRUE]
        ELSE [db |-> [db EXCEPT !.users = @ \cup {obj}], user |-> obj,
              created |-> TRUE, fault |-> FALSE]

\* line 51: RemoteUserBackend.configure_user returns the user as it is
configure_user(user) == user

\* lines 53-58 with line 58 outside the test of line 56: a variant of
\* CompareFields that reports an update for every field it looked at
CompareFields_AlwaysUpdated(user, params) ==
    [user |-> [f \in DOMAIN user |->
                  IF f \in DOMAIN params THEN params[f] ELSE user[f]],
     updated |-> DOMAIN params # {}]

\* lines 53-58: the fields of the in-memory user that differ are set
CompareFields(user, params) ==
    [user |-> [f \in DOMAIN user |->
                  IF f \in DOMAIN params /\ user[f] # params[f]
                  THEN params[f] ELSE user[f]],
     updated |-> \E k \in DOMAIN params : user[k] # params[k]]

\* line 60 left out: a variant of SaveUser that writes nothing
SaveUser_Skip(db, user) == [db |-> db, fault |-> FALSE]

\* line 60: user.save() writes every column of the row with the user's id;
\* it fails when another row holds the username
SaveUser(db, user) ==
    IF \E u \in db.users : u.id # user.id /\ u.username = user.username
    THEN [db |-> db, fault |-> TRUE]
    ELSE [db |-> [db EXCEPT !.users = {u \in @ : u.id # user.id} \cup {user}],
          fault |-> FALSE]

\* line 67: Group.objects.get_or_create(name=g)
GetOrCreateGroup(db, g) == [db EXCEPT !.groups = @ \cup {g}]

\* line 68: group.user_set.add(user)
AddMembership(db, uid, g) == [db EXCEPT !.memberships = @ \cup {<<uid, g>>}]

\* lines 66-69: the loop over the asserted groups, in list order
RECURSIVE AddGroups(_, _, _)
AddGroups(db, uid, list) ==
    IF list = <<>> THEN db
    ELSE AddGroups(AddMembership(GetOrCreateGroup(db, Head(list)), uid, Head(list)),
                   uid, Tail(list))

\* line 72 with filter in place of exclude: a variant of StaleGroups that
\* returns the asserted groups the user holds
StaleGroups_Filter(db, uid, used_groups) ==
    {g \in db.groups : <<uid, g>> \in db.memberships /\ g \in Range(used_groups)}

\* line 72: user.groups.all().exclude(name__in=used_groups)
StaleGroups(db, uid, used_groups) ==
    {g \in db.groups : <<uid, g>> \in db.memberships /\ g \notin Range(used_groups)}

\* line 73 left out: a variant of RemoveMembership that removes nothing
RemoveMembership_Skip(db, uid, g) == db

\* line 73: group.user_set.remove(user)
RemoveMembership(db, uid, g) == [db EXCEPT !.memberships = @ \ {<<uid, g>>}]

\* lines 72-73: the loop over the groups the query returned
RECURSIVE RemoveGroups(_, _, _)
RemoveGroups(db, uid, todo) ==
    IF todo = {} THEN db
    ELSE LET g == CHOOSE x \in todo : TRUE
         IN  RemoveGroups(RemoveMembership(db, uid, g), uid, todo \ {g})

\* lines 78-81: User.objects.get(**shib_user_params); DoesNotExist is
\* caught, MultipleObjectsReturned is not
LookupUser(db, params) ==
    LET found == {u \in db.users : \A k \in DOMAIN params : u[k] = params[k]}
    IN  IF found = {} THEN [user |-> NoUser, outcome |-> "none"]
        ELSE IF Cardinality(found) = 1
        THEN [user |-> CHOOSE u \in found : TRUE, outcome |-> "returned"]
        ELSE [user |-> NoUser, outcome |-> "MultipleObjectsReturned"]

\* ------------------------------------------------------- authenticate --
\* what one call did: the store it left, how it ended ("returned" a user,
\* "none" for None, or the exception that left it), the user returned, the
\* created flag of line 49, the number of user.save() calls of line 60, the
\* users handed to configure_user and the calls of SHIB_ATTRIBUTE_MAP_SAVER
Result(db, outcome, user, created, saved, configured, archived) ==
    [db |-> db, outcome |-> outcome, user |-> user, created |-> created,
     saved |-> saved, configured |-> configured, archived |-> archived]

\* lines 62-75 for a user that line 49-60 produced
SyncAndArchive(db, user, groups, shib_meta, created, saved, configured) ==
    IF ~groups.present
    THEN \* line 66: for g in None
         Result(db, "TypeError", NoUser, created, saved, configured, <<>>)
    ELSE LET added == AddGroups(db, user.id, groups.list)
             synced == RemoveGroups(added, user.id,
                                    StaleGroups(added, user.id, groups.list))
         IN  Result(synced, "returned", user, created, saved, configured,
                    <<[user |-> user.id, shib_meta |-> shib_meta]>>)

\* lines 47-75
CreateBranch(db, username, params, groups, shib_meta) ==
    LET goc == GetOrCreateUser(db, username, params)
        cmp == IF goc.created
               THEN [user |-> configure_user(goc.user), updated |-> FALSE]
               ELSE CompareFields(goc.user, params)
        sv == IF cmp.updated THEN SaveUser(goc.db, cmp.user)
              ELSE [db |-> goc.db, fault |-> FALSE]
    IN  IF goc.fault
        THEN Result(db, "IntegrityError", NoUser, FALSE, 0, <<>>, <<>>)
        ELSE IF sv.fault
        THEN Result(db, "IntegrityError", NoUser, FALSE, 0, <<>>, <<>>)
        ELSE SyncAndArchive(sv.db, cmp.user, groups, shib_meta, goc.created,
                            IF cmp.updated THEN 1 ELSE 0,
                            IF goc.created THEN <<goc.user.id>> ELSE <<>>)

\* lines 77-82
LookupBranch(db, params) ==
    LET got == LookupUser(db, params)
    IN  Result(db, got.outcome, got.user, FALSE, 0, <<>>, <<>>)

\* lines 22-82 with the test of line 47 left out: a variant of
\* Authenticate that takes the create branch whatever the flag
Authenticate_AlwaysCreate(db, remote_user, shib_meta, create_unknown_user) ==
    IF remote_user = ""
    THEN Result(db, "none", NoUser, FALSE, 0, <<>>, <<>>)
    ELSE CreateBranch(db, clean_username(remote_user),
                      shib_user_params(DelGroups(shib_meta)),
                      GroupsOf(shib_meta), DelGroups(shib_meta))

\* lines 22-82: the whole call
Authenticate(db, remote_user, shib_meta, create_unknown_user) ==
    IF remote_user = ""
    THEN Result(db, "none", NoUser, FALSE, 0, <<>>, <<>>)
    ELSE LET username == clean_username(remote_user)
             groups == GroupsOf(shib_meta)
             meta == DelGroups(shib_meta)
             params == shib_user_params(meta)
         IN  IF create_unknown_user
             THEN CreateBranch(db, username, params, groups, meta)
             ELSE LookupBranch(db, params)

\* -------------------------------------------------------------- state --
\* the two workers that serve concurrent requests
Procs == {1, 2}

VARIABLES
    users,        \* rows of auth_user
    groups,       \* rows of auth_group
    memberships,  \* the user<->group relation
    last,         \* Spec: the call that ran last, while its result is held
    proc,         \* ConcSpec: each worker's place in authenticate and its locals
    seed          \* ConcSpec: the store the concurrent calls started from

vars == <<users, groups, memberships, last, proc, seed>>

store == Db(users, groups, memberships)

Idle ==
    [phase |-> "idle", remote_user |-> "", shib_meta |-> <<>>,
     create_unknown_user |-> TRUE, again |-> FALSE, pre |-> Db({}, {}, {}),
     outcome |-> "none", user |-> NoUser, created |-> FALSE, saved |-> 0,
     configured |-> <<>>, archived |-> <<>>]

Record(remote_user, shib_meta, create, again, pre, r) ==
    [phase |-> "done", remote_user |-> remote_user, shib_meta |-> shib_meta,
     create_unknown_user |-> create, again |-> again, pre |-> pre,
     outcome |-> r.outcome, user |-> r.user, created |-> r.created,
     saved |-> r.saved, configured |-> r.configured, archived |-> r.archived]

\* a worker before its call
Fresh ==
    [pc |-> "init", shib_meta |-> <<>>, username |-> "",
     groups |-> [present |-> FALSE, list |-> <<>>], meta |-> <<>>,
     params |-> <<>>, user |-> NoUser, created |-> FALSE, rest |-> <<>>,
     todo |-> {}, outcome |-> "running", saved |-> 0, configured |-> <<>>,
     archived |-> <<>>, overlapped |-> FALSE, second |-> FALSE]

Init ==
    /\ users = {}
    /\ groups = {}
    /\ memberships = {}
    /\ last = Idle
    /\ proc = [p \in Procs |-> Fresh]
    /\ seed = Db({}, {}, {})

\* ----------------------------------------------------- Spec: one by one --
\* one call of authenticate, from its first line to its return or raise
Call(remote_user, shib_meta, create, again) ==
    LET r == Authenticate(store, remote_user, shib_meta, create)
    IN  /\ users' = r.db.users
        /\ groups' = r.db.groups
        /\ memberships' = r.db.memberships
        /\ last' = Record(remote_user, shib_meta, create, again, store, r)
        /\ UNCHANGED <<proc, seed>>

\* a request arrives with an assertion
Request ==
    /\ last.phase = "idle"
    /\ \E remote_user \in RemoteUsers, shib_meta \in ShibMetas, create \in BOOLEAN :
          Call(remote_user, shib_meta, create, FALSE)

\* the next request of the same session carries the identical assertion
RequestAgain ==
    /\ last.phase = "done"
    /\ ~last.again
    /\ Call(last.remote_user, last.shib_meta, last.create_unknown_user, TRUE)

\* the caller takes the result
Return ==
    /\ last.phase = "done"
    /\ last' = Idle
    /\ UNCHANGED <<users, groups, memberships, proc, seed>>

Next == Request \/ RequestAgain \/ Return

Spec == Init /\ [][Next]_vars

\* ------------------------------------------ ConcSpec: store op by store op --
\* the remote user of the concurrent requests
ConcUser == "u1"

\* their assertions: a "username" attribute or none, a groups list or none
ConcMetas == {m \in ShibMetas : DOMAIN m \subseteq {"username", "groups"}}

\* the stores they start from: the empty one, and those one earlier call
\* for ConcUser leaves
SeedStores ==
    {Db({}, {}, {})} \cup
    {Authenticate(Db({}, {}, {}), ConcUser, "groups" :> gl, TRUE).db : gl \in GroupLists}

ConcInit ==
    /\ \E db \in SeedStores :
          /\ users = db.users
          /\ groups = db.groups
          /\ memberships = db.memberships
          /\ seed = db
    /\ last = Idle
    /\ proc = [p \in Procs |-> Fresh]

Running(p) == proc[p].pc \notin {"init", "done"}

SetStore(db) ==
    /\ users' = db.users
    /\ groups' = db.groups
    /\ memberships' = db.memberships

\* the place after line 60: line 66 raises on None, the loop of lines
\* 66-69 runs for a non-empty list, line 72 follows an empty one
AfterUser(groups_, rec) ==
    IF ~groups_.present
    THEN [rec EXCEPT !.pc = "done", !.outcome = "TypeError"]
    ELSE IF groups_.list = <<>>
    THEN [rec EXCEPT !.pc = "query"]
    ELSE [rec EXCEPT !.pc = "get_or_create_group"]

\* lines 32-47: the locals of a call with a non-empty remote_user and
\* create_unknown_user = True (line 20)
Start(p) ==
    /\ proc[p].pc = "init"
    /\ \E shib_meta \in ConcMetas :
          LET g == GroupsOf(shib_meta)
              meta == DelGroups(shib_meta)
              others == {q \in Procs \ {p} : Running(q)}
          IN  proc' = [q \in Procs |->
                  IF q = p
                  THEN [Fresh EXCEPT !.pc = "get_or_create",
                                     !.shib_meta = shib_meta,
                                     !.username = clean_username(ConcUser),
                                     !.groups = g, !.meta = meta,
                                     !.params = shib_user_params(meta),
                                     !.rest = g.list,
                                     !.overlapped = others # {},
                                     !.second = \E o \in Procs \ {p} : proc[o].pc # "init"]
                  ELSE IF q \in others THEN [proc[q] EXCEPT !.overlapped = TRUE]
                  ELSE proc[q]]
    /\ UNCHANGED <<users, groups, memberships, last, seed>>

\* lines 49-58
StepGetOrCreate(p) ==
    /\ proc[p].pc = "get_or_create"
    /\ LET r == GetOrCreateUser(store, proc[p].username, proc[p].params)
           cmp == CompareFields(r.user, proc[p].params)
       IN  /\ SetStore(r.db)
           /\ proc' = [proc EXCEPT ![p] =
                 IF r.fault
                 THEN [@ EXCEPT !.pc = "done", !.outcome = "IntegrityError"]
                 ELSE IF r.created
                 THEN AfterUser(@.groups,
                                [@ EXCEPT !.user = configure_user(r.user),
                                          !.created = TRUE,
                                          !.configured = <<r.user.id>>])
                 ELSE IF cmp.updated
                 THEN [@ EXCEPT !.user = cmp.user, !.pc = "save"]
                 ELSE AfterUser(@.groups, [@ EXCEPT !.user = r.user])]
    /\ UNCHANGED <<last, seed>>

\* lines 59-60
StepSave(p) ==
    /\ proc[p].pc = "save"
    /\ LET r == SaveUser(store, proc[p].user)
       IN  /\ SetStore(r.db)
           /\ proc' = [proc EXCEPT ![p] =
                 IF r.fault
                 THEN [@ EXCEPT !.pc = "done", !.outcome = "IntegrityError"]
                 ELSE AfterUser(@.groups, [@ EXCEPT !.saved = 1])]
    /\ UNCHANGED <<last, seed>>

\* line 67
StepGroup(p) ==
    /\ proc[p].pc = "get_or_create_group"
    /\ SetStore(GetOrCreateGroup(store, Head(proc[p].rest)))
    /\ proc' = [proc EXCEPT ![p].pc = "add"]
    /\ UNCHANGED <<last, seed>>

\* lines 68-69
StepAdd(p) ==
    /\ proc[p].pc = "add"
    /\ SetStore(AddMembership(store, proc[p].user.id, Head(proc[p].rest)))
    /\ proc' = [proc EXCEPT ![p].rest = Tail(@),
                            ![p].pc = IF Tail(proc[p].rest) = <<>>
                                      THEN "query" ELSE "get_or_create_group"]
    /\ UNCHANGED <<last, seed>>

\* line 72: the query is evaluated once, when the loop starts
StepQuery(p) ==
    /\ proc[p].pc = "query"
    /\ LET todo == StaleGroups(store, proc[p].user.id, proc[p].groups.list)
       IN  proc' = [proc EXCEPT ![p].todo = todo,
                                ![p].pc = IF todo = {} THEN "archive" ELSE "remove"]
    /\ UNCHANGED <<users, groups, memberships, last, seed>>

\* line 73, for one group of the query's result
StepRemove(p) ==
    /\ proc[p].pc = "remove"
    /\ \E g \in proc[p].todo :
          /\ SetStore(RemoveMembership(store, proc[p].user.id, g))
          /\ proc' = [proc EXCEPT ![p].todo = @ \ {g},
                                  ![p].pc = IF proc[p].todo = {g}
                                            THEN "archive" ELSE "remove"]
    /\ UNCHANGED <<last, seed>>

\* lines 75 and 82
StepArchive(p) ==
    /\ proc[p].pc = "archive"
    /\ proc' = [proc EXCEPT ![p].archived =
                                <<[user |-> proc[p].user.id, shib_meta |-> proc[p].meta]>>,
                            ![p].outcome = "returned",
                            ![p].pc = "done"]
    /\ UNCHANGED <<users, groups, memberships, last, seed>>

ConcNext ==
    \E p \in Procs :
        \/ Start(p)
        \/ StepGetOrCreate(p)
        \/ StepSave(p)
        \/ StepGroup(p)
        \/ StepAdd(p)
        \/ StepQuery(p)
        \/ StepRemove(p)
        \/ StepArchive(p)

ConcSpec == ConcInit /\ [][ConcNext]_vars

\* ------------------------------------------------------------ invariants --
TypeOK ==
    /\ \A u \in users : u.username \in Usernames /\ u.email \in Emails \cup {""}
    /\ groups \subseteq GroupNames
    /\ memberships \subseteq {u.id : u \in users} \X groups

\* auth_user.username is unique, ids are 1..n
UsernameUnique ==
    /\ \A u, v \in users : u.username = v.username => u = v
    /\ {u.id : u \in users} = 1..Cardinality(users)

\* a worker that ran alone ended as the atomic call does
AloneAgrees ==
    \A p \in Procs :
        (proc[p].pc = "done" /\ \A q \in Procs \ {p} : proc[q].pc = "init") =>
            LET r == Authenticate(seed, ConcUser, proc[p].shib_meta, TRUE)
            IN  /\ r.db = store
                /\ r.outcome = proc[p].outcome
                /\ r.created = proc[p].created
                /\ r.saved = proc[p].saved
                /\ r.configured = proc[p].configured
                /\ r.archived = proc[p].archived
                /\ (r.outcome = "returned" => r.user = proc[p].user)

\* ----------------------------------------------------------------- claims --
Done == last.phase = "done"

\* the call of `last` ran the create branch (lines 47-75)
Created == Done /\ last.remote_user # "" /\ last.create_unknown_user

\* line 43 for the call of `last`
LastParams == shib_user_params(DelGroups(last.shib_meta))

GroupsHeld(db, uid) == {g \in GroupNames : <<uid, g>> \in db.memberships}

Ids(db) == {u.id : u \in db.users}

\* the row the call of `last` found under the cleaned remote user name
Found == {u \in last.pre.users : u.username = clean_username(last.remote_user)}

\* the call of `last` was ended by the store refusing a write
StoreFault == last.outcome = "IntegrityError"

C2_SkipCompletes ==
    (Created /\ "groups" \notin DOMAIN last.shib_meta /\ ~StoreFault) =>
        /\ memberships = last.pre.memberships
        /\ last.outcome = "returned"
        /\ Len(last.archived) = 1

\* C3: the user a call on the create branch returns carries the cleaned
\* remote user name
C3_ReturnedUsername ==
    (Created /\ last.outcome = "returned") =>
        last.user.username = clean_username(last.remote_user)

\* C4: with create_unknown_user false and no row under the remote user
\* name, the call returns None and leaves the store as it was
C4_UnknownIsNone ==
    (Done /\ last.remote_user # "" /\ ~last.create_unknown_user /\ Found = {}) =>
        /\ last.outcome = "none"
        /\ store = last.pre

C6_Idempotent ==
    (Created /\ last.again) =>
        /\ last.saved = 0
        /\ store = last.pre

\* C6 witness: a repeated call that returned a user with a field and a
\* membership from the assertion
C6_Witness ==
    /\ Created /\ last.again /\ last.outcome = "returned"
    /\ "email" \in DOMAIN last.shib_meta
    /\ GroupsHeld(store, last.user.id) # {}

C9_DeclinedNoMutation ==
    (Done /\ (last.remote_user = "" \/ ~last.create_unknown_user)) =>
        /\ store = last.pre
        /\ last.configured = <<>>
        /\ last.archived = <<>>
        /\ last.saved = 0

\* C9 witness: create_unknown_user false, a matching user, an assertion
\* with groups the user does not hold
C9_Witness ==
    /\ Done /\ ~last.create_unknown_user /\ last.outcome = "returned"
    /\ "groups" \in DOMAIN last.shib_meta
    /\ Range(last.shib_meta["groups"]) # GroupsHeld(store, last.user.id)
    /\ "email" \in DOMAIN last.shib_meta

AllDone == \A p \in Procs : proc[p].pc = "done"

RECURSIVE Total(_, _)
Total(f(_), S) ==
    IF S = {} THEN 0
    ELSE LET x == CHOOSE y \in S : TRUE IN f(x) + Total(f, S \ {x})

HookCalls(p) == Len(proc[p].configured)

\* C8: concurrent calls for one name that had no row leave exactly one row
\* under that name, exactly one of them saw created = True, and
\* configure_user ran once (stated for calls that all returned a user)
C8_OneCreation ==
    (/\ AllDone
     /\ \A p \in Procs : proc[p].outcome = "returned"
     /\ ~\E u \in seed.users : u.username = ConcUser) =>
        /\ Cardinality({u \in users : u.username = ConcUser}) = 1
        /\ Cardinality({p \in Procs : proc[p].created}) = 1
        /\ Total(HookCalls, Procs) = 1

\* both calls returned the same user, which had a row before they started
SameUser ==
    /\ \A p \in Procs : proc[p].outcome = "returned"
    /\ \A p, q \in Procs : proc[p].user.id = proc[q].user.id
    /\ \A p \in Procs : proc[p].user.id \in Ids(seed)

\* the user's memberships are the asserted groups of neither call
Flapped ==
    \A p \in Procs : GroupsHeld(store, proc[p].user.id) # Range(proc[p].groups.list)

\* C10: two finished calls for the same existing user leave memberships
\* that are neither call's list only when the calls overlapped; calls that
\* ran one after the other leave the list of the later one
C10_FlapNeedsOverlap ==
    (AllDone /\ SameUser) =>
        /\ (Flapped => \A p \in Procs : proc[p].overlapped)
        /\ \A p \in Procs :
              (proc[p].second /\ ~proc[p].overlapped) =>
                  GroupsHeld(store, proc[p].user.id) = Range(proc[p].groups.list)

\* C10 witness: both calls finished, their lists differ, and the
\* memberships of the user are neither
C10_Witness ==
    /\ AllDone /\ SameUser /\ Flapped
    /\ \E p, q \in Procs : Range(proc[p].groups.list) # Range(proc[q].groups.list)

====
